---- MODULE Spec2Model ----
(***************************************************************************)
(* Model of the document ingestion pipeline of lekton:                     *)
(*   src/api/ingest.rs        process_ingest                               *)
(*   src/db/repository.rs     MongoDocumentRepository                      *)
(*   src/rendering/links.rs   extract_internal_links                       *)
(*   src/auth/models.rs       AccessLevel                                  *)
(*   src/search/client.rs     build_search_document, index_document        *)
(*   src/storage/client.rs    put_object                                   *)
(*                                                                         *)
(* Text is a sequence of one-character strings, so that the string         *)
(* functions of the code (trim, split, replace, lowercase) are computed    *)
(* as the code computes them.  Option<T> is a sequence of length 0 (None)  *)
(* or 1 (Some).  A markdown body is the sequence of the destination URLs   *)
(* of its link nodes, in document order: that is all process_ingest reads  *)
(* from the pulldown_cmark event stream.  Timestamps (last_updated) and    *)
(* the content preview of the search document are not modelled.            *)
(*                                                                         *)
(* process_ingest is modelled twice from the same operators: as one action *)
(* (Ingest: a call that runs alone, start to return) and as one action per *)
(* await point (the tasks of the handler, whose backend calls interleave). *)
(* `eval` holds the arguments and the value of a pure function.            *)
(***************************************************************************)
EXTENDS Integers, Sequences, FiniteSets, TLC

VARIABLES collection, bucket, index, unmatched, last, tasks, eval

vars == <<collection, bucket, index, unmatched, last, tasks, eval>>

(***************************************************************************)
(* Bounds of the model.                                                    *)
(***************************************************************************)
MaxLinks == 2

MaxOrder == 2

MaxFailAt == 2

MaxSlugLen == 3

(***************************************************************************)
(* Text helpers (Rust str methods used by the code).                       *)
(***************************************************************************)
Range(s) == {s[i] : i \in 1..Len(s)}

Contains(s, x) == \E i \in 1..Len(s) : s[i] = x

starts_with(s, p) == Len(s) >= Len(p) /\ SubSeq(s, 1, Len(p)) = p

RECURSIVE trim_start_matches(_, _)
trim_start_matches(s, p) ==
    IF p # <<>> /\ starts_with(s, p)
    THEN trim_start_matches(SubSeq(s, Len(p) + 1, Len(s)), p)
    ELSE s

RECURSIVE trim_end_matches(_, _)
trim_end_matches(s, c) ==
    IF s # <<>> /\ s[Len(s)] = c
    THEN trim_end_matches(SubSeq(s, 1, Len(s) - 1), c)
    ELSE s

\* s.split(c).next(): the text before the first c, all of s when there is none
split_first(s, c) ==
    IF Contains(s, c)
    THEN SubSeq(s, 1, (CHOOSE i \in 1..Len(s) :
                         s[i] = c /\ \A j \in 1..(i - 1) : s[j] # c) - 1)
    ELSE s

replace(s, from, to) == [i \in 1..Len(s) |-> IF s[i] = from THEN to ELSE s[i]]

Upper == <<"A", "B", "C", "D", "E", "F", "G", "H", "I", "J", "K", "L", "M",
           "N", "O", "P", "Q", "R", "S", "T", "U", "V", "W", "X", "Y", "Z">>

Lower == <<"a", "b", "c", "d", "e", "f", "g", "h", "i", "j", "k", "l", "m",
           "n", "o", "p", "q", "r", "s", "t", "u", "v", "w", "x", "y", "z">>

lower_char(c) ==
    IF \E i \in 1..Len(Upper) : Upper[i] = c
    THEN Lower[CHOOSE i \in 1..Len(Upper) : Upper[i] = c]
    ELSE c

to_lowercase(s) == [i \in 1..Len(s) |-> lower_char(s[i])]

(***************************************************************************)
(* src/auth/models.rs: AccessLevel.                                        *)
(***************************************************************************)
Public == 0

Developer == 1

Architect == 2

Admin == 3

AccessLevel == {Public, Developer, Architect, Admin}

TxtPublic == <<"p", "u", "b", "l", "i", "c">>

TxtDeveloper == <<"d", "e", "v", "e", "l", "o", "p", "e", "r">>

TxtArchitect == <<"a", "r", "c", "h", "i", "t", "e", "c", "t">>

TxtAdmin == <<"a", "d", "m", "i", "n">>

\* impl Display for AccessLevel
to_string(level) ==
    CASE level = Public -> TxtPublic
      [] level = Developer -> TxtDeveloper
      [] level = Architect -> TxtArchitect
      [] level = Admin -> TxtAdmin

\* Mutant of has_access: the held level must be above the required one
has_access_above(held, required) == held > required

\* *self >= required, in the order of the discriminants
has_access(held, required) == held >= required

\* Mutant of from_str_ci: the text is matched as it is written
from_str_ci_exact(s) ==
    IF s = TxtPublic THEN <<Public>>
    ELSE IF s = TxtDeveloper THEN <<Developer>>
    ELSE IF s = TxtArchitect THEN <<Architect>>
    ELSE IF s = TxtAdmin THEN <<Admin>>
    ELSE <<>>

\* Mutant of from_str_ci: unknown text falls back to Public
from_str_ci_defaulting(s) ==
    LET l == to_lowercase(s)
    IN  IF l = TxtDeveloper THEN <<Developer>>
        ELSE IF l = TxtArchitect THEN <<Architect>>
        ELSE IF l = TxtAdmin THEN <<Admin>>
        ELSE <<Public>>

\* Option<AccessLevel>
from_str_ci(s) ==
    LET l == to_lowercase(s)
    IN  IF l = TxtPublic THEN <<Public>>
        ELSE IF l = TxtDeveloper THEN <<Developer>>
        ELSE IF l = TxtArchitect THEN <<Architect>>
        ELSE IF l = TxtAdmin THEN <<Admin>>
        ELSE <<>>

(***************************************************************************)
(* src/rendering/links.rs: the link extractor.                             *)
(***************************************************************************)
PfxHttp == <<"h", "t", "t", "p", ":", "/", "/">>

PfxHttps == <<"h", "t", "t", "p", "s", ":", "/", "/">>

PfxMailto == <<"m", "a", "i", "l", "t", "o", ":">>

PfxDocs == <<"d", "o", "c", "s", "/">>

is_internal_link(url) ==
    /\ ~starts_with(url, PfxHttp)
    /\ ~starts_with(url, PfxHttps)
    /\ ~starts_with(url, <<"#">>)
    /\ ~starts_with(url, PfxMailto)

normalize_link(url) ==
    LET stripped == trim_start_matches(trim_start_matches(url, <<"/">>), PfxDocs)
        without_anchor == split_first(stripped, "#")
    IN  trim_end_matches(without_anchor, "/")

RECURSIVE extract_from(_, _, _)
extract_from(body, i, links) ==
    IF i > Len(body) THEN links
    ELSE LET url == body[i]
             normalized == normalize_link(url)
         IN  IF is_internal_link(url) /\ normalized # <<>> /\ ~Contains(links, normalized)
             THEN extract_from(body, i + 1, Append(links, normalized))
             ELSE extract_from(body, i + 1, links)

extract_internal_links(body) == extract_from(body, 1, <<>>)

(***************************************************************************)
(* src/db/repository.rs: MongoDocumentRepository.  The collection is the   *)
(* set of stored Document values.                                          *)
(***************************************************************************)
Matching(coll, slug) == {d \in coll : d.slug = slug}

\* Option<Document>: find_one({slug})
find_by_slug(coll, slug) ==
    IF Matching(coll, slug) = {} THEN <<>>
    ELSE <<CHOOSE d \in Matching(coll, slug) : TRUE>>

\* replace_one({slug}, doc) with upsert(true)
create_or_update(coll, doc) ==
    IF Matching(coll, doc.slug) = {} THEN coll \cup {doc}
    ELSE (coll \ {find_by_slug(coll, doc.slug)[1]}) \cup {doc}

\* The bytes of the characters of a slug, in ascending order (MongoDB compares
\* strings byte by byte when no collation is set)
ByteOrder == <<"/">> \o Upper \o <<"_">> \o Lower

byte(c) == CHOOSE i \in 1..Len(ByteOrder) : ByteOrder[i] = c

\* s sorts before t: at the first position where they differ s has ended or holds
\* the smaller byte
str_lt(s, t) ==
    \E i \in 1..(Len(t)) :
        /\ i - 1 <= Len(s)
        /\ SubSeq(s, 1, i - 1) = SubSeq(t, 1, i - 1)
        /\ \/ i > Len(s)
           \/ byte(s[i]) < byte(t[i])

\* sort { order: 1, slug: 1 }
sorts_before(d, e) ==
    \/ d.order < e.order
    \/ d.order = e.order /\ str_lt(d.slug, e.slug)

RECURSIVE sorted(_)
sorted(docs) ==
    IF docs = {} THEN <<>>
    ELSE LET first == CHOOSE d \in docs : \A e \in docs : ~sorts_before(e, d)
         IN  <<first>> \o sorted(docs \ {first})

\* Mutant of list_accessible: the filter on is_hidden is left out
list_accessible_with_hidden(coll, max_level) ==
    sorted({d \in coll : d.access_level \in {l \in AccessLevel : l <= max_level}})

\* find({access_level: {$in: levels up to max_level}, is_hidden: false}) sorted
list_accessible(coll, max_level) ==
    sorted({d \in coll :
              /\ d.access_level \in {l \in AccessLevel : l <= max_level}
              /\ ~d.is_hidden})

\* $pull: every occurrence of the value leaves the array
Pull(backlinks, source_slug) == SelectSeq(backlinks, LAMBDA b : b # source_slug)

\* Mutant of AddToSet: $set, the array becomes the one value
AddToSet_set(backlinks, source_slug) == <<source_slug>>

\* Mutant of AddToSet: $push, the value is appended whatever the array holds
AddToSet_push(backlinks, source_slug) == Append(backlinks, source_slug)

\* $addToSet: the value is appended unless the array already holds it
AddToSet(backlinks, source_slug) ==
    IF Contains(backlinks, source_slug) THEN backlinks
    ELSE Append(backlinks, source_slug)

\* Mutant of update_one: with upsert(true), a filter that matches nothing inserts
\* a document holding the slug and the backlink
update_one_upsert(coll, slug, op, source_slug) ==
    IF Matching(coll, slug) = {}
    THEN coll \cup {[slug |-> slug, title |-> <<>>, s3_key |-> <<>>,
                     access_level |-> Public, service_owner |-> <<>>, tags |-> <<>>,
                     links_out |-> <<>>,
                     backlinks |-> IF op = "$pull" THEN <<>> ELSE <<source_slug>>,
                     parent_slug |-> <<>>, order |-> 0, is_hidden |-> FALSE]}
    ELSE LET d == find_by_slug(coll, slug)[1]
             b == IF op = "$pull" THEN Pull(d.backlinks, source_slug)
                  ELSE AddToSet(d.backlinks, source_slug)
         IN  (coll \ {d}) \cup {[d EXCEPT !.backlinks = b]}

\* update_one({slug}, {$pull | $addToSet: {backlinks: source_slug}}): the first
\* matching document is updated, and matching nothing is not an error
update_one(coll, slug, op, source_slug) ==
    IF Matching(coll, slug) = {} THEN coll
    ELSE LET d == find_by_slug(coll, slug)[1]
             b == IF op = "$pull" THEN Pull(d.backlinks, source_slug)
                  ELSE AddToSet(d.backlinks, source_slug)
         IN  (coll \ {d}) \cup {[d EXCEPT !.backlinks = b]}

\* Mutant of removed_links: every old target is removed, kept or not
removed_links_all(old_links, new_links) == old_links

\* Targets that lost a link from this source
removed_links(old_links, new_links) ==
    SelectSeq(old_links, LAMBDA link : ~Contains(new_links, link))

\* Targets that gained a link from this source
added_links(old_links, new_links) ==
    SelectSeq(new_links, LAMBDA link : ~Contains(old_links, link))

\* The update_one calls of update_backlinks, in the order the two loops issue them
backlink_ops(old_links, new_links) ==
    LET removed == removed_links(old_links, new_links)
        added == added_links(old_links, new_links)
    IN  [i \in 1..Len(removed) |-> [op |-> "$pull", slug |-> removed[i]]]
        \o [i \in 1..Len(added) |-> [op |-> "$addToSet", slug |-> added[i]]]

\* The loops from the i-th call on; the fail_at-th call returns Err and `?`
\* leaves the function (a failed call has written nothing).  `updates` lists the
\* calls that returned Ok, each with whether its filter matched a document
\* (UpdateResult.matched_count, which the code does not read).
RECURSIVE run_backlink_ops(_, _, _, _, _, _)
run_backlink_ops(coll, source_slug, ops, i, fail_at, updates) ==
    IF i > Len(ops)
    THEN [collection |-> coll, ok |-> TRUE, ncalls |-> Len(ops), updates |-> updates]
    ELSE IF i = fail_at
    THEN [collection |-> coll, ok |-> FALSE, ncalls |-> i, updates |-> updates]
    ELSE run_backlink_ops(update_one(coll, ops[i].slug, ops[i].op, source_slug),
                          source_slug, ops, i + 1, fail_at,
                          Append(updates, [op |-> ops[i].op, slug |-> ops[i].slug,
                                           matched |-> Matching(coll, ops[i].slug) # {}]))

update_backlinks(coll, source_slug, old_links, new_links, fail_at) ==
    run_backlink_ops(coll, source_slug, backlink_ops(old_links, new_links), 1, fail_at,
                     <<>>)

(***************************************************************************)
(* src/storage/client.rs and src/search/client.rs.                         *)
(***************************************************************************)
put_object(bkt, key, content) ==
    [k \in DOMAIN bkt \cup {key} |-> IF k = key THEN content ELSE bkt[k]]

build_search_document(doc) ==
    [slug |-> doc.slug, title |-> doc.title, access_level |-> doc.access_level,
     service_owner |-> doc.service_owner, tags |-> doc.tags]

\* add_documents(&[doc], Some("slug")): slug is the primary key
index_document(idx, search_doc) ==
    {d \in idx : d.slug # search_doc.slug} \cup {search_doc}

\* with_limit(20)
SearchLimit == 20

\* with_query(query): the empty query matches every document of the index, a
\* word matches the documents that have it as title, slug or tag
matches_query(d, query) ==
    \/ query = <<>>
    \/ query = d.title
    \/ query = d.slug
    \/ Contains(d.tags, query)

\* At most SearchLimit of the documents found
with_limit(found) ==
    IF Cardinality(found) <= SearchLimit THEN found
    ELSE CHOOSE hits \in SUBSET found : Cardinality(hits) = SearchLimit

SearchHit(d) == [slug |-> d.slug, title |-> d.title, tags |-> d.tags]

\* SearchService::search (`search` names the optional service in process_ingest)
search_hits(idx, query, max_access_level) ==
    {SearchHit(d) : d \in with_limit({d \in idx : /\ matches_query(d, query)
                                                  /\ d.access_level <= max_access_level})}

\* GET /api/v1/search?q=...: the query alone, no filter
search_handler(idx, q) ==
    with_limit({d \in idx : matches_query(d, q)})

\* The server function of the search bar
search_docs(idx, query) == search_hits(idx, query, Developer)

(***************************************************************************)
(* src/api/ingest.rs: process_ingest.                                      *)
(***************************************************************************)
OkResult(slug, s3_key) == [kind |-> "Ok", slug |-> slug, s3_key |-> s3_key]

Err(kind) == [kind |-> kind, slug |-> <<>>, s3_key |-> <<>>]

\* What a call of process_ingest leaves: the three stores, the returned value and
\* the backend calls it made, in order
Outcome(coll, bkt, idx, result, calls) ==
    [collection |-> coll, bucket |-> bkt, index |-> idx,
     result |-> result, calls |-> calls, updates |-> <<>>]

\* format!("docs/{}.md", slug.replace('/', "_"))
s3_key_of(slug) == PfxDocs \o replace(slug, "/", "_") \o <<".", "m", "d">>

merge_parent_slug(request, old_doc) ==
    IF request.parent_slug # <<>> THEN request.parent_slug
    ELSE IF old_doc = <<>> THEN <<>> ELSE old_doc[1].parent_slug

\* Mutant of merge_order: the request's order is stored as it is
merge_order_overwrite(request, old_doc) == request.order

merge_order(request, old_doc) ==
    IF request.order > 0 THEN request.order
    ELSE IF old_doc = <<>> THEN 0 ELSE old_doc[1].order

\* Mutant of merge_is_hidden: the request's flag is stored as it is
merge_is_hidden_overwrite(request, old_doc) == request.is_hidden

merge_is_hidden(request, old_doc) ==
    IF request.is_hidden THEN TRUE
    ELSE IF old_doc = <<>> THEN FALSE ELSE old_doc[1].is_hidden

\* Mutant of build_document: the backlinks of the old document are dropped
build_document_no_backlinks(request, access_level, s3_key, links_out, old_doc) ==
    [slug |-> request.slug,
     title |-> request.title,
     s3_key |-> s3_key,
     access_level |-> access_level,
     service_owner |-> request.service_owner,
     tags |-> request.tags,
     links_out |-> links_out,
     backlinks |-> <<>>,
     parent_slug |-> merge_parent_slug(request, old_doc),
     order |-> merge_order(request, old_doc),
     is_hidden |-> merge_is_hidden(request, old_doc)]

build_document(request, access_level, s3_key, links_out, old_doc) ==
    [slug |-> request.slug,
     title |-> request.title,
     s3_key |-> s3_key,
     access_level |-> access_level,
     service_owner |-> request.service_owner,
     tags |-> request.tags,
     links_out |-> links_out,
     backlinks |-> IF old_doc = <<>> THEN <<>> ELSE old_doc[1].backlinks,
     parent_slug |-> merge_parent_slug(request, old_doc),
     order |-> merge_order(request, old_doc),
     is_hidden |-> merge_is_hidden(request, old_doc)]

UpdateOneCalls(n) == [i \in 1..n |-> "update_one"]

\* Mutant of finish_ingest: the error of index_document is returned with `?`
finish_ingest_propagating(coll, bkt, idx, request, s3_key, search_doc, fail, calls) ==
    IF search_doc = <<>>
    THEN Outcome(coll, bkt, idx, OkResult(request.slug, s3_key), calls)
    ELSE IF fail.call = "index_document"
    THEN Outcome(coll, bkt, idx, Err("Internal"), Append(calls, "index_document"))
    ELSE Outcome(coll, bkt, index_document(idx, search_doc[1]),
                 OkResult(request.slug, s3_key), Append(calls, "index_document"))

\* Step 11 and the return: the outcome of index_document is logged, not returned
finish_ingest(coll, bkt, idx, request, s3_key, search_doc, fail, calls) ==
    IF search_doc = <<>>
    THEN Outcome(coll, bkt, idx, OkResult(request.slug, s3_key), calls)
    ELSE Outcome(coll, bkt,
                 IF fail.call = "index_document" THEN idx
                 ELSE index_document(idx, search_doc[1]),
                 OkResult(request.slug, s3_key),
                 Append(calls, "index_document"))

\* Mutant of commit_ingest: the result of create_or_update is dropped, the call
\* goes on to the backlink update and to the index
commit_ingest_unchecked(coll, bkt, idx, request, doc, old_links, search_doc, fail) ==
    LET calls3 == <<"find_by_slug", "put_object", "create_or_update">>
        stored == IF fail.call = "create_or_update" THEN coll
                  ELSE create_or_update(coll, doc)
        bl == update_backlinks(stored, request.slug, old_links, doc.links_out,
                               IF fail.call = "update_one" THEN fail.nth ELSE 0)
        calls == calls3 \o UpdateOneCalls(bl.ncalls)
    IN  IF ~bl.ok
        THEN [Outcome(bl.collection, bkt, idx, Err("Database"), calls)
                 EXCEPT !.updates = bl.updates]
        ELSE [finish_ingest(bl.collection, bkt, idx, request, doc.s3_key,
                            search_doc, fail, calls)
                 EXCEPT !.updates = bl.updates]

\* Steps 9 and 10: the upsert, then the backlink update; `?` on both
commit_ingest(coll, bkt, idx, request, doc, old_links, search_doc, fail) ==
    LET calls3 == <<"find_by_slug", "put_object", "create_or_update">>
    IN  IF fail.call = "create_or_update"
        THEN Outcome(coll, bkt, idx, Err("Database"), calls3)
        ELSE LET bl == update_backlinks(create_or_update(coll, doc), request.slug,
                                        old_links, doc.links_out,
                                        IF fail.call = "update_one" THEN fail.nth ELSE 0)
                 calls == calls3 \o UpdateOneCalls(bl.ncalls)
             IN  IF ~bl.ok
                 THEN [Outcome(bl.collection, bkt, idx, Err("Database"), calls)
                          EXCEPT !.updates = bl.updates]
                 ELSE [finish_ingest(bl.collection, bkt, idx, request, doc.s3_key,
                                     search_doc, fail, calls)
                          EXCEPT !.updates = bl.updates]

\* Mutant of store_ingest: the result of put_object is dropped, not returned
store_ingest_put_unchecked(coll, bkt, idx, request, access_level, links_out, search, fail) ==
    IF fail.call = "find_by_slug"
    THEN Outcome(coll, bkt, idx, Err("Database"), <<"find_by_slug">>)
    ELSE LET old_doc == find_by_slug(coll, request.slug)
             old_links == IF old_doc = <<>> THEN <<>> ELSE old_doc[1].links_out
             s3_key == s3_key_of(request.slug)
             doc == build_document(request, access_level, s3_key, links_out, old_doc)
             search_doc == IF search THEN <<build_search_document(doc)>> ELSE <<>>
         IN  commit_ingest(coll,
                           IF fail.call = "put_object" THEN bkt
                           ELSE put_object(bkt, s3_key, request.content),
                           idx, request, doc, old_links, search_doc, fail)

\* Steps 5 to 8: lookup, storage key, blob put, the new Document
store_ingest(coll, bkt, idx, request, access_level, links_out, search, fail) ==
    IF fail.call = "find_by_slug"
    THEN Outcome(coll, bkt, idx, Err("Database"), <<"find_by_slug">>)
    ELSE LET old_doc == find_by_slug(coll, request.slug)
             old_links == IF old_doc = <<>> THEN <<>> ELSE old_doc[1].links_out
             s3_key == s3_key_of(request.slug)
         IN  IF fail.call = "put_object"
             THEN Outcome(coll, bkt, idx, Err("Storage"),
                          <<"find_by_slug", "put_object">>)
             ELSE LET doc == build_document(request, access_level, s3_key, links_out, old_doc)
                      search_doc == IF search THEN <<build_search_document(doc)>> ELSE <<>>
                  IN  commit_ingest(coll, put_object(bkt, s3_key, request.content), idx,
                                    request, doc, old_links, search_doc, fail)

\* Mutant of process_ingest: the service token is not compared
process_ingest_any_token(coll, bkt, idx, request, search, expected_token, fail) ==
    IF request.slug = <<>>
    THEN Outcome(coll, bkt, idx, Err("BadRequest"), <<>>)
    ELSE IF from_str_ci(request.access_level) = <<>>
    THEN Outcome(coll, bkt, idx, Err("BadRequest"), <<>>)
    ELSE store_ingest(coll, bkt, idx, request, from_str_ci(request.access_level)[1],
                      extract_internal_links(request.content), search, fail)

\* Steps 1 to 4: token, slug, access level, link extraction
process_ingest(coll, bkt, idx, request, search, expected_token, fail) ==
    IF request.service_token # expected_token
    THEN Outcome(coll, bkt, idx, Err("Auth"), <<>>)
    ELSE IF request.slug = <<>>
    THEN Outcome(coll, bkt, idx, Err("BadRequest"), <<>>)
    ELSE IF from_str_ci(request.access_level) = <<>>
    THEN Outcome(coll, bkt, idx, Err("BadRequest"), <<>>)
    ELSE store_ingest(coll, bkt, idx, request, from_str_ci(request.access_level)[1],
                      extract_internal_links(request.content), search, fail)

(***************************************************************************)
(* Inputs of the model.                                                    *)
(***************************************************************************)
ExpectedToken == <<"k">>

WrongToken == <<"z">>

SlugA == <<"a">>

SlugB == <<"b">>

SlugC == <<"c">>

\* /docs/a/ and b#x: an absolute and a relative link destination
UrlA == <<"/", "d", "o", "c", "s", "/", "a", "/">>

UrlB == <<"b", "#", "x">>

UrlC == <<"c">>

\* http://a, https://a, ftp://a, #x and mailto:a
UrlHttp == PfxHttp \o <<"a">>

UrlHttps == PfxHttps \o <<"a">>

UrlFtp == <<"f", "t", "p", ":", "/", "/", "a">>

UrlAnchor == <<"#", "x">>

UrlMailto == PfxMailto \o <<"a">>

TxtPublicMixed == <<"P", "u", "b", "l", "i", "C">>

TxtInvalid == <<"r", "o", "o", "t">>

TitleOne == <<"t">>

OwnerOne == <<"o">>

TitleTwo == <<"u">>

OwnerTwo == <<"p">>

TagsTwo == <<<<"x">>, <<"y">>>>

\* a/a and a_a
SlugPath == <<"a", "/", "a">>

SlugFlat == <<"a", "_", "a">>

\* Bodies with at most MaxLinks link nodes, their destinations drawn from urls
Bodies(urls) == UNION {[1..n -> urls] : n \in 0..MaxLinks}

\* Lists of at most MaxLinks distinct slugs (what links_out can hold)
LinkLists(slugs) ==
    {l \in UNION {[1..n -> slugs] : n \in 0..MaxLinks} :
        \A i, j \in 1..Len(l) : i # j => l[i] # l[j]}

BaseRequest ==
    [service_token |-> ExpectedToken, slug |-> SlugA, title |-> TitleOne,
     content |-> <<>>, access_level |-> TxtPublic, service_owner |-> OwnerOne,
     tags |-> <<>>, parent_slug |-> <<>>, order |-> 0, is_hidden |-> FALSE]

NoFail == [call |-> "none", nth |-> 0]

\* Which backend call of an ingestion returns Err: at most one can, since every
\* failure but that of index_document ends the call, and index_document is the last
FailPlans ==
    {NoFail}
    \cup {[call |-> c, nth |-> 1] :
            c \in {"find_by_slug", "put_object", "create_or_update", "index_document"}}
    \cup {[call |-> "update_one", nth |-> n] : n \in 1..MaxFailAt}

\* Requests that pass the three checks of steps 1 to 3: a, which may link to b,
\* and b, which links to nothing
AcceptedRequests ==
    {[BaseRequest EXCEPT !.slug = SlugA, !.access_level = TxtPublicMixed,
                         !.content = b] : b \in Bodies({UrlB})}
    \cup {[BaseRequest EXCEPT !.slug = SlugB]}

\* Requests that fail one of them: a wrong token, an empty slug, an invalid level
RejectedRequests ==
    {r \in {[BaseRequest EXCEPT !.service_token = t, !.slug = s, !.access_level = a,
                                !.content = <<UrlB>>] :
              t \in {ExpectedToken, WrongToken}, s \in {<<>>, SlugA},
              a \in {TxtPublicMixed, TxtInvalid, <<>>}} :
        \/ r.service_token # ExpectedToken
        \/ r.slug = <<>>
        \/ r.access_level # TxtPublicMixed}

\* Requests of SpecOk: two slugs linking to themselves and to each other
GraphRequests ==
    {[BaseRequest EXCEPT !.slug = s, !.content = b] :
        s \in {SlugA, SlugB}, b \in Bodies({UrlA, UrlB})}

\* Inputs of Spec: a request, whether a search service is configured, and the
\* backend failure the call meets (index_document is not called without a search
\* service).
IngestInputs ==
    {in \in [request : AcceptedRequests, search : BOOLEAN, fail : FailPlans] :
        in.fail.call = "index_document" => in.search}

\* Requests of SpecRepo: documents without links, the targets of update_backlinks
PlainRequests == {[BaseRequest EXCEPT !.slug = s] : s \in {SlugB, SlugC}}

\* Inputs of SpecReject: rejected requests and requests that create documents
RejectInputs ==
    [request : PlainRequests \cup RejectedRequests, search : BOOLEAN, fail : {NoFail}]

\* Requests of SpecMeta: the hierarchy fields of two slugs
MetaRequests ==
    {[BaseRequest EXCEPT !.slug = s, !.parent_slug = p, !.order = o, !.is_hidden = h] :
        s \in {SlugA, SlugB}, p \in {<<>>, <<SlugB>>, <<SlugC>>},
        o \in 0..MaxOrder, h \in BOOLEAN}

(***************************************************************************)
(* The state machine.  `last` records the last operation: its inputs, the  *)
(* value it returned and the backend calls it made.  `unmatched` is the    *)
(* set of <<source, target>> for which the latest $addToSet of source on   *)
(* target matched no document and no $pull has followed.                   *)
(***************************************************************************)
\* unmatched after the update_one calls `updates` of source_slug
Unmatched(old, source_slug, updates) ==
    (old \ {<<source_slug, updates[i].slug>> : i \in 1..Len(updates)})
    \cup {<<source_slug, updates[i].slug>> :
            i \in {j \in 1..Len(updates) :
                     updates[j].op = "$addToSet" /\ ~updates[j].matched}}

\* The handler tasks that can run at once
Tasks == {1, 2}

\* A task that handles no request: the locals of process_ingest, unset
IdleTask ==
    [pc |-> "idle", request |-> BaseRequest, search |-> FALSE, links_out |-> <<>>,
     old_doc |-> <<>>, doc |-> <<>>, ops |-> <<>>, result |-> <<>>,
     settled |-> {}, concurrent |-> FALSE]

\* `old_links` keeps the links_out the lookup of step 5 finds stored
LastIngest(request, search, fail, out, old_doc) ==
    <<[op |-> "process_ingest", request |-> request, search |-> search,
       fail |-> fail, result |-> out.result, calls |-> out.calls,
       source_slug |-> <<>>,
       old_links |-> IF old_doc = <<>> THEN <<>> ELSE old_doc[1].links_out,
       new_links |-> <<>>]>>

LastUpdateBacklinks(source_slug, old_links, new_links, bl) ==
    <<[op |-> "update_backlinks", request |-> BaseRequest, search |-> FALSE,
       fail |-> NoFail,
       result |-> IF bl.ok THEN OkResult(<<>>, <<>>) ELSE Err("Database"),
       calls |-> UpdateOneCalls(bl.ncalls),
       source_slug |-> source_slug, old_links |-> old_links, new_links |-> new_links]>>

\* The stores and the handler after construction
StoresAtStart ==
    /\ collection = {}
    /\ bucket = <<>>
    /\ index = {}
    /\ unmatched = {}
    /\ last = <<>>
    /\ tasks = [p \in Tasks |-> IdleTask]

Init == StoresAtStart /\ eval = <<>>

LastListAccessible(max_level, documents) ==
    <<[op |-> "list_accessible", max_level |-> max_level, documents |-> documents]>>

\* POST /api/v1/ingest: one call of process_ingest, start to return
Ingest(request, search, fail) ==
    \E out \in {process_ingest(collection, bucket, index, request, search,
                              ExpectedToken, fail)} :
        /\ collection' = out.collection
        /\ bucket' = out.bucket
        /\ index' = out.index
        /\ unmatched' = Unmatched(unmatched, request.slug, out.updates)
        /\ last' = LastIngest(request, search, fail, out,
                               find_by_slug(collection, request.slug))
        /\ UNCHANGED <<tasks, eval>>

\* DocumentRepository::update_backlinks called on its own
UpdateBacklinks(source_slug, old_links, new_links) ==
    \E bl \in {update_backlinks(collection, source_slug, old_links, new_links, 0)} :
        /\ collection' = bl.collection
        /\ unmatched' = Unmatched(unmatched, source_slug, bl.updates)
        /\ last' = LastUpdateBacklinks(source_slug, old_links, new_links, bl)
        /\ UNCHANGED <<bucket, index, tasks, eval>>

\* DocumentRepository::list_accessible, the query of the navigation
ListAccessible(max_level) ==
    /\ last' = LastListAccessible(max_level, list_accessible(collection, max_level))
    /\ UNCHANGED <<collection, bucket, index, unmatched, tasks, eval>>

Next == \E in \in IngestInputs : Ingest(in.request, in.search, in.fail)

Spec == Init /\ [][Next]_vars

NextOk == \E request \in GraphRequests : Ingest(request, TRUE, NoFail)

SpecOk == Init /\ [][NextOk]_vars

NextReject == \E in \in RejectInputs : Ingest(in.request, in.search, in.fail)

SpecReject == Init /\ [][NextReject]_vars

NextMeta == \E request \in MetaRequests : Ingest(request, FALSE, NoFail)

SpecMeta == Init /\ [][NextMeta]_vars

IngestPlain == \E request \in PlainRequests : Ingest(request, FALSE, NoFail)

CallUpdateBacklinks ==
    \E source_slug \in {SlugA, SlugB},
       old_links \in LinkLists({SlugB, SlugC}),
       new_links \in LinkLists({SlugB, SlugC}) :
        UpdateBacklinks(source_slug, old_links, new_links)

NextRepo == IngestPlain \/ CallUpdateBacklinks

SpecRepo == Init /\ [][NextRepo]_vars

\* Requests of SpecList: three slugs at two levels, first or last in order, hidden
\* or not
ListRequests ==
    {[BaseRequest EXCEPT !.slug = s, !.access_level = a, !.order = o, !.is_hidden = h] :
        s \in {SlugA, SlugPath, SlugB}, a \in {TxtPublic, TxtArchitect},
        o \in {0, MaxOrder}, h \in BOOLEAN}

\* Requests of SpecLatest: two revisions of the title, level, owner and tags, with
\* or without a link to b in the body, for a slug with a slash, one with an
\* underscore and b
LatestRequests ==
    {[BaseRequest EXCEPT !.slug = s, !.content = b] :
        s \in {SlugPath, SlugFlat, SlugB}, b \in {<<>>, <<UrlB>>}}
    \cup {[BaseRequest EXCEPT !.slug = s, !.content = b, !.title = TitleTwo,
                              !.access_level = TxtAdmin, !.service_owner = OwnerTwo,
                              !.tags = TagsTwo] :
            s \in {SlugPath, SlugFlat, SlugB}, b \in {<<>>, <<UrlB>>}}

NextList ==
    \/ \E request \in ListRequests : Ingest(request, FALSE, NoFail)
    \/ \E max_level \in AccessLevel : ListAccessible(max_level)

SpecList == Init /\ [][NextList]_vars

NextLatest == \E request \in LatestRequests : Ingest(request, FALSE, NoFail)

SpecLatest == Init /\ [][NextLatest]_vars

LastSearch(op, query, max_level, hits) ==
    <<[op |-> op, query |-> query, max_level |-> max_level, hits |-> hits]>>

\* SearchService::search called with a query and a tier
Search(query, max_access_level) ==
    /\ last' = LastSearch("search", query, <<max_access_level>>,
                          search_hits(index, query, max_access_level))
    /\ UNCHANGED <<collection, bucket, index, unmatched, tasks, eval>>

\* GET /api/v1/search: the request carries no tier the handler reads
SearchHandler(q) ==
    /\ last' = LastSearch("search_handler", q, <<>>, search_handler(index, q))
    /\ UNCHANGED <<collection, bucket, index, unmatched, tasks, eval>>

\* The search bar: the request carries the query alone
SearchDocs(query) ==
    /\ last' = LastSearch("search_docs", query, <<>>, search_docs(index, query))
    /\ UNCHANGED <<collection, bucket, index, unmatched, tasks, eval>>

\* Requests of SpecSearch: two slugs at three tiers
TierRequests ==
    {[BaseRequest EXCEPT !.slug = s, !.access_level = a] :
        s \in {SlugA, SlugB}, a \in {TxtPublic, TxtDeveloper, TxtAdmin}}

Queries == {<<>>, TitleOne, SlugA}

\* Ingestions whose index submission succeeds or fails, and searches
NextSearch ==
    \/ \E request \in TierRequests :
           \E fail \in {NoFail, [call |-> "index_document", nth |-> 1]} :
               Ingest(request, TRUE, fail)
    \/ \E query \in Queries : \E max_access_level \in AccessLevel :
           Search(query, max_access_level)
    \/ \E q \in Queries : SearchHandler(q)
    \/ \E query \in Queries : SearchDocs(query)

SpecSearch == Init /\ [][NextSearch]_vars

(***************************************************************************)
(* process_ingest as the tasks of the handler run it: one action per       *)
(* backend call (await point).  A backend call takes effect at once in its *)
(* backend (MongoDB applies replace_one and update_one atomically to one   *)
(* document), or returns Err having written nothing.                       *)
(***************************************************************************)
\* old_links of step 5
OldLinks(task) == IF task.old_doc = <<>> THEN <<>> ELSE task.old_doc[1].links_out

Returned(task, result) == [task EXCEPT !.pc = "returned", !.ops = <<>>, !.result = <<result>>]

\* Where a task goes after the upsert and after each update_one: to the next
\* update_one, then to index_document when a search service is configured, then
\* to the return of Ok
NextCall(task, ops) ==
    IF ops # <<>> THEN [task EXCEPT !.pc = "update_one", !.ops = ops]
    ELSE IF task.search THEN [task EXCEPT !.pc = "index_document", !.ops = <<>>]
    ELSE Returned(task, OkResult(task.request.slug, task.doc[1].s3_key))

Running(task) == task.pc \notin {"idle", "returned"}

\* Steps 1 to 4, up to the first await.  Two fields describe the calls the task
\* runs with: `settled` is the set of the slugs that had a document when the call
\* started and that no call running at the same time ingests, and `concurrent`
\* tells whether another call was running at some time of this one.
Begin(p, request, search) ==
    /\ ~Running(tasks[p])
    /\ tasks' = [q \in Tasks |->
          IF q # p
          THEN IF Running(tasks[q])
               THEN [tasks[q] EXCEPT !.settled = @ \ {request.slug}, !.concurrent = TRUE]
               ELSE tasks[q]
          ELSE LET others == {r \in Tasks \ {p} : Running(tasks[r])}
                   task == [IdleTask EXCEPT
                              !.request = request, !.search = search,
                              !.settled = {d.slug : d \in collection}
                                             \ {tasks[r].request.slug : r \in others},
                              !.concurrent = others # {}]
               IN  IF request.service_token # ExpectedToken
                   THEN Returned(task, Err("Auth"))
                   ELSE IF request.slug = <<>>
                   THEN Returned(task, Err("BadRequest"))
                   ELSE IF from_str_ci(request.access_level) = <<>>
                   THEN Returned(task, Err("BadRequest"))
                   ELSE [task EXCEPT !.pc = "find_by_slug",
                                     !.links_out = extract_internal_links(request.content)]]
    /\ UNCHANGED <<collection, bucket, index, unmatched, last, eval>>

\* Step 5: repo.find_by_slug(&request.slug).await?
FindBySlug(p, ok) ==
    /\ tasks[p].pc = "find_by_slug"
    /\ tasks' = [tasks EXCEPT ![p] =
          IF ok
          THEN [tasks[p] EXCEPT !.pc = "put_object",
                                !.old_doc = find_by_slug(collection, tasks[p].request.slug)]
          ELSE Returned(tasks[p], Err("Database"))]
    /\ UNCHANGED <<collection, bucket, index, unmatched, last, eval>>

\* Mutant of PutObject: the result of put_object is dropped, the call goes on
PutObject_unchecked(p, ok) ==
    /\ tasks[p].pc = "put_object"
    /\ LET task == tasks[p]
           s3_key == s3_key_of(task.request.slug)
       IN  /\ bucket' = IF ok THEN put_object(bucket, s3_key, task.request.content)
                        ELSE bucket
           /\ tasks' = [tasks EXCEPT ![p] =
                 [task EXCEPT !.pc = "create_or_update",
                              !.doc = <<build_document(task.request,
                                          from_str_ci(task.request.access_level)[1],
                                          s3_key, task.links_out, task.old_doc)>>]]
    /\ UNCHANGED <<collection, index, unmatched, last, eval>>

\* Steps 6 to 8: storage.put_object(..).await?, then the new Document
PutObject(p, ok) ==
    /\ tasks[p].pc = "put_object"
    /\ LET task == tasks[p]
           s3_key == s3_key_of(task.request.slug)
       IN  IF ok
           THEN /\ bucket' = put_object(bucket, s3_key, task.request.content)
                /\ tasks' = [tasks EXCEPT ![p] =
                      [task EXCEPT !.pc = "create_or_update",
                                   !.doc = <<build_document(task.request,
                                               from_str_ci(task.request.access_level)[1],
                                               s3_key, task.links_out, task.old_doc)>>]]
           ELSE /\ bucket' = bucket
                /\ tasks' = [tasks EXCEPT ![p] = Returned(task, Err("Storage"))]
    /\ UNCHANGED <<collection, index, unmatched, last, eval>>

\* Step 9: repo.create_or_update(doc).await?, then the delta of update_backlinks.
\* replace_one with upsert(true) looks for a document of the slug and replaces it
\* in one atomic write; when it finds none it inserts the new one, and since the
\* collection has no unique index on slug (MongoDocumentRepository::new builds
\* none) the insert is a second write, which does not look at what other calls
\* inserted since the lookup.
CreateOrUpdate(p, ok) ==
    /\ tasks[p].pc = "create_or_update"
    /\ LET task == tasks[p]
       IN  IF ~ok
           THEN /\ collection' = collection
                /\ tasks' = [tasks EXCEPT ![p] = Returned(task, Err("Database"))]
           ELSE IF Matching(collection, task.request.slug) = {}
           THEN /\ collection' = collection
                /\ tasks' = [tasks EXCEPT ![p] = [task EXCEPT !.pc = "insert"]]
           ELSE /\ collection' = create_or_update(collection, task.doc[1])
                /\ tasks' = [tasks EXCEPT ![p] =
                      NextCall(task, backlink_ops(OldLinks(task), task.doc[1].links_out))]
    /\ UNCHANGED <<bucket, index, unmatched, last, eval>>

\* Step 9, the insert of an upsert that found no document of the slug
InsertUpserted(p) ==
    /\ tasks[p].pc = "insert"
    /\ collection' = collection \cup {tasks[p].doc[1]}
    /\ tasks' = [tasks EXCEPT ![p] =
          NextCall(tasks[p], backlink_ops(OldLinks(tasks[p]), tasks[p].doc[1].links_out))]
    /\ UNCHANGED <<bucket, index, unmatched, last, eval>>

\* Step 10: one update_one(..).await of the loops of update_backlinks
UpdateOne(p, ok) ==
    /\ tasks[p].pc = "update_one"
    /\ LET task == tasks[p]
       IN  IF ok
           THEN /\ collection' = update_one(collection, task.ops[1].slug, task.ops[1].op,
                                            task.request.slug)
                /\ tasks' = [tasks EXCEPT ![p] = NextCall(task, Tail(task.ops))]
           ELSE /\ collection' = collection
                /\ tasks' = [tasks EXCEPT ![p] = Returned(task, Err("Database"))]
    /\ UNCHANGED <<bucket, index, unmatched, last, eval>>

\* Step 11 and the return: search.index_document(&search_doc).await, logged
IndexDocument(p, ok) ==
    /\ tasks[p].pc = "index_document"
    /\ index' = IF ok THEN index_document(index, build_search_document(tasks[p].doc[1]))
                ELSE index
    /\ tasks' = [tasks EXCEPT ![p] =
          Returned(tasks[p], OkResult(tasks[p].request.slug, tasks[p].doc[1].s3_key))]
    /\ UNCHANGED <<collection, bucket, unmatched, last, eval>>

\* Requests of the tasks: a source with or without a link to c, and c itself
SourceRequests(slug) ==
    {[BaseRequest EXCEPT !.slug = slug, !.content = b] : b \in {<<>>, <<UrlC>>}}

TargetRequest == [BaseRequest EXCEPT !.slug = SlugC]

\* Task 1 ingests a and c while task 2 ingests b: two sources that share a target
ShareRequests(p) ==
    IF p = 1 THEN SourceRequests(SlugA) \cup {TargetRequest}
    ELSE SourceRequests(SlugB)

\* Calls that interleave and whose backend calls succeed
NextShare ==
    \E p \in Tasks :
        \/ \E request \in ShareRequests(p) : Begin(p, request, FALSE)
        \/ FindBySlug(p, TRUE)
        \/ PutObject(p, TRUE)
        \/ CreateOrUpdate(p, TRUE)
        \/ InsertUpserted(p)
        \/ UpdateOne(p, TRUE)

SpecShare == Init /\ [][NextShare]_vars

\* Both tasks ingest a and c: calls for the same slug and for a target interleave
TaskRequests == SourceRequests(SlugA) \cup {TargetRequest}

\* Calls that interleave and whose backend calls succeed or fail, with a search
\* service configured
NextTasks ==
    \E p \in Tasks :
        \/ \E request \in TaskRequests : Begin(p, request, TRUE)
        \/ InsertUpserted(p)
        \/ \E ok \in BOOLEAN :
            \/ FindBySlug(p, ok)
            \/ PutObject(p, ok)
            \/ CreateOrUpdate(p, ok)
            \/ UpdateOne(p, ok)
            \/ IndexDocument(p, ok)

SpecTasks == Init /\ [][NextTasks]_vars

\* The stores after c was ingested once, no call running
InitRace ==
    \E out \in {process_ingest({}, <<>>, {}, TargetRequest, FALSE, ExpectedToken, NoFail)} :
        /\ collection = out.collection
        /\ bucket = out.bucket
        /\ index = out.index
        /\ unmatched = {}
        /\ last = <<>>
        /\ tasks = [p \in Tasks |-> IdleTask]
        /\ eval = <<>>

\* Task 1 ingests a and c while task 2 ingests a: calls for the same source, and
\* calls for a source and for its target, interleave
RaceRequests(p) ==
    IF p = 1 THEN SourceRequests(SlugA) \cup {TargetRequest}
    ELSE SourceRequests(SlugA)

\* Calls that interleave and whose backend calls succeed
NextRace ==
    \E p \in Tasks :
        \/ \E request \in RaceRequests(p) : Begin(p, request, FALSE)
        \/ FindBySlug(p, TRUE)
        \/ PutObject(p, TRUE)
        \/ CreateOrUpdate(p, TRUE)
        \/ InsertUpserted(p)
        \/ UpdateOne(p, TRUE)

SpecRace == InitRace /\ [][NextRace]_vars

(***************************************************************************)
(* Pure functions of the code, applied to arguments drawn at the start:    *)
(* `eval` holds the function's name and its arguments, then its value too. *)
(***************************************************************************)
Input(fn, args) == <<[fn |-> fn, args |-> args, applied |-> FALSE, value |-> <<>>]>>

Applied(fn, args, value) == <<[fn |-> fn, args |-> args, applied |-> TRUE, value |-> value]>>

IsInput(fn) == eval # <<>> /\ eval[1].fn = fn /\ ~eval[1].applied

IsApplied(fn) == eval # <<>> /\ eval[1].fn = fn /\ eval[1].applied

upper_char(c) ==
    IF \E i \in 1..Len(Lower) : Lower[i] = c
    THEN Upper[CHOOSE i \in 1..Len(Lower) : Lower[i] = c]
    ELSE c

\* A name of a level written in every mix of upper and lower case
CaseVariants(name) ==
    {[i \in 1..Len(name) |-> IF m[i] THEN upper_char(name[i]) ELSE name[i]] :
        m \in [1..Len(name) -> BOOLEAN]}

\* Texts that name no level: empty, another word, a name cut short, a name with
\* a character more, a name between spaces
OtherTexts ==
    {<<>>, TxtInvalid, SubSeq(TxtPublic, 1, 5), TxtAdmin \o <<"s">>,
     <<" ">> \o TxtAdmin, TxtAdmin \o <<" ">>, TxtPublic \o TxtAdmin, <<"0">>}

TierInputs ==
    UNION {CaseVariants(name) : name \in {TxtPublic, TxtDeveloper, TxtArchitect, TxtAdmin}}
    \cup OtherTexts

InitTier ==
    /\ StoresAtStart
    /\ eval \in {Input("has_access", <<held, required>>) :
                   held \in AccessLevel, required \in AccessLevel}
                \cup {Input("from_str_ci", <<s>>) : s \in TierInputs}
                \cup {Input("to_string", <<level>>) : level \in AccessLevel}

ApplyHasAccess ==
    /\ IsInput("has_access")
    /\ eval' = Applied("has_access", eval[1].args,
                       has_access(eval[1].args[1], eval[1].args[2]))
    /\ UNCHANGED <<collection, bucket, index, unmatched, last, tasks>>

ApplyFromStrCi ==
    /\ IsInput("from_str_ci")
    /\ eval' = Applied("from_str_ci", eval[1].args, from_str_ci(eval[1].args[1]))
    /\ UNCHANGED <<collection, bucket, index, unmatched, last, tasks>>

ApplyToString ==
    /\ IsInput("to_string")
    /\ eval' = Applied("to_string", eval[1].args, to_string(eval[1].args[1]))
    /\ UNCHANGED <<collection, bucket, index, unmatched, last, tasks>>

NextTier == ApplyHasAccess \/ ApplyFromStrCi \/ ApplyToString

SpecTier == InitTier /\ [][NextTier]_vars

\* Destinations of the link nodes of a body: absolute URLs, an anchor, a mail
\* address and paths of documents
LinkUrls == {UrlHttp, UrlHttps, UrlFtp, UrlAnchor, UrlMailto, UrlA, UrlB, UrlC}

InitLinks ==
    StoresAtStart /\ eval \in {Input("extract_internal_links", <<body>>) : body \in Bodies(LinkUrls)}

ApplyExtract ==
    /\ IsInput("extract_internal_links")
    /\ eval' = Applied("extract_internal_links", eval[1].args,
                       extract_internal_links(eval[1].args[1]))
    /\ UNCHANGED <<collection, bucket, index, unmatched, last, tasks>>

SpecLinks == InitLinks /\ [][ApplyExtract]_vars

\* Texts of at most n characters of chars
Texts(chars, n) == UNION {[1..k -> chars] : k \in 0..n}

\* Slugs as paths: segments of letters and underscores separated by slashes
KeySlugs ==
    {s \in Texts({"a", "/", "_"}, MaxSlugLen) :
        /\ s # <<>>
        /\ s[1] # "/" /\ s[Len(s)] # "/"
        /\ \A i \in 1..(Len(s) - 1) : ~(s[i] = "/" /\ s[i + 1] = "/")}

InitKey == StoresAtStart /\ eval \in {Input("s3_key_of", <<s1, s2>>) : s1, s2 \in KeySlugs}

\* The storage keys of step 6 for two slugs
ApplyS3Key ==
    /\ IsInput("s3_key_of")
    /\ eval' = Applied("s3_key_of", eval[1].args,
                       <<s3_key_of(eval[1].args[1]), s3_key_of(eval[1].args[2])>>)
    /\ UNCHANGED <<collection, bucket, index, unmatched, last, tasks>>

SpecKey == InitKey /\ [][ApplyS3Key]_vars

\* "/docs/": the path of the document root
PfxRoot == <<"/">> \o PfxDocs

\* Slugs referred to: plain ones, one with a path, and slugs that are or
\* start with the name of the document root
RefSlugs == {SlugA, SlugB, SlugPath, <<"d", "o", "c", "s">>, PfxDocs \o SlugA}

\* What may follow the slug in a destination: nothing, a fragment, a slash
RefSuffixes == {<<>>, <<"#", "x">>, <<"/">>}

\* The destination "/docs/<slug><suffix>" of a reference
RefUrl(ref) == PfxRoot \o ref.slug \o ref.suffix

RefLists ==
    UNION {[1..n -> [slug : RefSlugs, suffix : RefSuffixes]] : n \in 0..MaxLinks}

InitRefs == StoresAtStart /\ eval \in {Input("extract_refs", <<refs>>) : refs \in RefLists}

\* The extractor on the body whose link nodes are the references, in order
ApplyExtractRefs ==
    /\ IsInput("extract_refs")
    /\ eval' = Applied("extract_refs", eval[1].args,
                       extract_internal_links([i \in 1..Len(eval[1].args[1]) |->
                                                  RefUrl(eval[1].args[1][i])]))
    /\ UNCHANGED <<collection, bucket, index, unmatched, last, tasks>>

SpecRefs == InitRefs /\ [][ApplyExtractRefs]_vars

(***************************************************************************)
(* Reading the stores.                                                     *)
(***************************************************************************)
Slugs(coll) == {d.slug : d \in coll}

\* The slugs of the documents whose links_out holds slug
Linkers(coll, slug) == {y.slug : y \in {d \in coll : Contains(d.links_out, slug)}}

LastIs(op) == last # <<>> /\ last[1].op = op

(***************************************************************************)
(* C1.  Original statement: after ingest calls made one at a time, each    *)
(* returning success, the backlinks of every document X are exactly the    *)
(* slugs of the documents whose links_out holds X.slug.                    *)
(***************************************************************************)
C1_BacklinksEqualLinkers ==
    \A x \in collection : Range(x.backlinks) = Linkers(collection, x.slug)

\* C1, amended: the backlinks of every document X are the slugs of the documents
\* whose links_out holds X.slug, less the sources whose link to X was added while
\* X had no document (their $addToSet matched nothing), each backlink held once.
C1_BacklinksEqualLinkersButUnmatched ==
    \A x \in collection :
        /\ Range(x.backlinks) =
              Linkers(collection, x.slug) \ {y \in Slugs(collection) : <<y, x.slug>> \in unmatched}
        /\ Cardinality(Range(x.backlinks)) = Len(x.backlinks)

\* C1 witness: b was ingested after a, which links to it, so a's backlink on b is
\* missing, while b's backlink on a is there
C1_Witness ==
    /\ LastIs("process_ingest") /\ last[1].result.kind = "Ok"
    /\ <<SlugA, SlugB>> \in unmatched
    /\ \E x \in collection : x.slug = SlugB /\ ~Contains(x.backlinks, SlugA)
    /\ \E x \in collection : x.slug = SlugA /\ Contains(x.links_out, SlugB)
                                /\ Contains(x.backlinks, SlugB)

(***************************************************************************)
(* Reading `last`.                                                         *)
(***************************************************************************)
\* The state after a call of process_ingest / the step that is such a call
Ingested == LastIs("process_ingest")

Stored(coll, slug) == find_by_slug(coll, slug)[1]

TierTexts == {TxtPublic, TxtDeveloper, TxtArchitect, TxtAdmin}

\* The backend call the failure plan names was made, so it is the one that failed
FailedAt(call) ==
    /\ Ingested
    /\ last[1].fail.call = call
    /\ last[1].calls # <<>>
    /\ last[1].calls[Len(last[1].calls)] = call

(***************************************************************************)
(* C2.  An ingest request whose credential differs from the expected       *)
(* secret, whatever its slug, access level and body, returns an Auth       *)
(* error, makes no backend call and leaves the three stores as they were.  *)
(***************************************************************************)
C2_WrongTokenStep ==
    (Ingested' /\ last'[1].request.service_token # ExpectedToken)
    => /\ last'[1].result.kind = "Auth"
       /\ last'[1].calls = <<>>
       /\ collection' = collection /\ bucket' = bucket /\ index' = index

C2_WrongTokenTouchesNothing == [][C2_WrongTokenStep]_vars

\* C2 witness: a wrong token with an empty slug and an invalid level, with a search
\* service configured and documents stored, was refused
C2_Witness ==
    /\ Ingested
    /\ last[1].request.service_token = WrongToken
    /\ last[1].request.slug = <<>>
    /\ last[1].request.access_level = TxtInvalid
    /\ last[1].search
    /\ last[1].result.kind = "Auth"
    /\ collection # {} /\ index # {}

(***************************************************************************)
(* C3.  With the correct credential, an empty slug or an access level text *)
(* that is none of the four names (case-insensitively) returns BadRequest, *)
(* makes no backend call and stores nothing (no default level).            *)
(***************************************************************************)
C3_InvalidStep ==
    (/\ Ingested'
     /\ last'[1].request.service_token = ExpectedToken
     /\ \/ last'[1].request.slug = <<>>
        \/ to_lowercase(last'[1].request.access_level) \notin TierTexts)
    => /\ last'[1].result.kind = "BadRequest"
       /\ last'[1].calls = <<>>
       /\ collection' = collection /\ bucket' = bucket /\ index' = index

C3_InvalidRequestTouchesNothing == [][C3_InvalidStep]_vars

\* C3 witness: a request with the right token, a slug and an invalid level was
\* refused, and no document of that slug exists
C3_Witness ==
    /\ Ingested
    /\ last[1].request.service_token = ExpectedToken
    /\ last[1].request.slug = SlugA
    /\ last[1].request.access_level = TxtInvalid
    /\ last[1].result.kind = "BadRequest"
    /\ Matching(collection, SlugA) = {}
    /\ collection # {}

(***************************************************************************)
(* C4.  When the put of step 7 fails, ingest returns a Storage error and   *)
(* the collection (backlinks included) and the search index are as before. *)
(***************************************************************************)
C4_PutFailedStep ==
    (Ingested' /\ last'[1].fail.call = "put_object")
    => /\ last'[1].result.kind = "Storage"
       /\ collection' = collection
       /\ index' = index
       /\ ~Contains(last'[1].calls, "create_or_update")
       /\ ~Contains(last'[1].calls, "update_one")
       /\ ~Contains(last'[1].calls, "index_document")

C4_PutFailureLeavesMetadata == [][C4_PutFailedStep]_vars

\* C4 witness: the put failed for a re-ingestion of a that drops its link to b,
\* while b still holds the backlink and the index holds a
C4_Witness ==
    /\ FailedAt("put_object")
    /\ last[1].request.slug = SlugA
    /\ last[1].request.content = <<>>
    /\ last[1].search
    /\ \E d \in collection : d.slug = SlugA /\ d.links_out = <<SlugB>>
    /\ \E d \in collection : d.slug = SlugB /\ d.backlinks = <<SlugA>>
    /\ \E d \in index : d.slug = SlugA

(***************************************************************************)
(* C5.  Once the upsert of step 9 has succeeded, the call returns success: *)
(* a failure of the backlink update or of the indexing is not returned.    *)
(***************************************************************************)
C5_SuccessAfterUpsert ==
    (/\ Ingested
     /\ Contains(last[1].calls, "create_or_update")
     /\ last[1].fail.call # "create_or_update")
    => last[1].result.kind = "Ok"

(***************************************************************************)
(* C6.  From every state and for every request, the returned value, the    *)
(* bucket and the collection are the same without a search service, with   *)
(* one that succeeds and with one that fails; without one, index_document  *)
(* is not called and the index is left alone.                              *)
(***************************************************************************)
SameButIndex(o1, o2) ==
    /\ o1.result = o2.result
    /\ o1.bucket = o2.bucket
    /\ o1.collection = o2.collection

C7_MergeStep ==
    (Ingested' /\ last'[1].result.kind = "Ok")
    => LET request == last'[1].request
           old == find_by_slug(collection, request.slug)
           new == Stored(collection', request.slug)
           unset == request.parent_slug = <<>> /\ request.order = 0 /\ ~request.is_hidden
       IN  /\ (old # <<>> /\ unset)
                => /\ new.parent_slug = old[1].parent_slug
                   /\ new.order = old[1].order
                   /\ new.is_hidden = old[1].is_hidden
           /\ (request.parent_slug # <<>> /\ request.parent_slug[1] # <<>>)
                => new.parent_slug = request.parent_slug
           /\ request.order # 0 => new.order = request.order
           /\ request.is_hidden => new.is_hidden
           /\ old = <<>>
                => /\ request.parent_slug = <<>> => new.parent_slug = <<>>
                   /\ request.order = 0 => new.order = 0
                   /\ ~request.is_hidden => ~new.is_hidden

C7_HierarchyMergedBySentinel == [][C7_MergeStep]_vars

\* C7 witness: a was re-ingested with the three fields unset and still has a parent,
\* a non-zero order and the hidden flag
C7_Witness ==
    /\ Ingested /\ last[1].result.kind = "Ok"
    /\ last[1].request.slug = SlugA
    /\ last[1].request.parent_slug = <<>>
    /\ last[1].request.order = 0
    /\ ~last[1].request.is_hidden
    /\ \E d \in collection :
        d.slug = SlugA /\ d.parent_slug = <<SlugC>> /\ d.order = MaxOrder /\ d.is_hidden

(***************************************************************************)
(* C8.  update_backlinks(s, old, new), for every document t: when t is in  *)
(* old and not in new, s is not in t.backlinks afterwards; when t is in    *)
(* new and not in old, s is in t.backlinks afterwards, once; when t is in  *)
(* both or in neither, t.backlinks is as it was.                           *)
(***************************************************************************)
Occurrences(seq, x) == Cardinality({i \in 1..Len(seq) : seq[i] = x})

Reconciled == LastIs("update_backlinks")

C8_ReconcileStep ==
    Reconciled'
    => LET s == last'[1].source_slug
           old == last'[1].old_links
           new == last'[1].new_links
       IN  \A t \in collection :
            LET after == Stored(collection', t.slug).backlinks
            IN  /\ (Contains(old, t.slug) /\ ~Contains(new, t.slug))
                     => ~Contains(after, s)
                /\ (Contains(new, t.slug) /\ ~Contains(old, t.slug))
                     => Occurrences(after, s) = 1
                /\ (Contains(old, t.slug) <=> Contains(new, t.slug))
                     => after = t.backlinks

C8_ReconcileAppliesDelta == [][C8_ReconcileStep]_vars

\* C8 witness: update_backlinks(a, <<b, c>>, <<c>>) ran: b, in old only, holds
\* another backlink and not a, and c, in both, holds a
C8_Witness ==
    /\ Reconciled
    /\ last[1].source_slug = SlugA
    /\ last[1].old_links = <<SlugB, SlugC>>
    /\ last[1].new_links = <<SlugC>>
    /\ \E t \in collection : t.slug = SlugB /\ t.backlinks = <<SlugB>>
    /\ \E t \in collection : t.slug = SlugC /\ Contains(t.backlinks, SlugA)

(***************************************************************************)
(* C9.  update_backlinks is idempotent: applied again with the same        *)
(* arguments to the state it left, it leaves every backlinks list as the   *)
(* first application left it.                                              *)
(***************************************************************************)
C9_ReconcileIdempotent ==
    Reconciled
    => update_backlinks(collection, last[1].source_slug, last[1].old_links,
                        last[1].new_links, 0).collection = collection

\* C9 witness: update_backlinks(b, <<c>>, <<b>>) ran on documents b and c, adding b
\* to its own backlinks, which held a
C9_Witness ==
    /\ Reconciled
    /\ last[1].source_slug = SlugB
    /\ last[1].old_links = <<SlugC>>
    /\ last[1].new_links = <<SlugB>>
    /\ \E t \in collection : t.slug = SlugB /\ t.backlinks = <<SlugA, SlugB>>
    /\ \E t \in collection : t.slug = SlugC /\ ~Contains(t.backlinks, SlugB)

(***************************************************************************)
(* C10.  When a slug added or removed by update_backlinks has no document, *)
(* the call returns Ok, the set of stored slugs is as before, and the      *)
(* targets that have a document get the change.                            *)
(***************************************************************************)
C10_MissingTargetStep ==
    LET s == last'[1].source_slug
        removed == {l \in Range(last'[1].old_links) : ~Contains(last'[1].new_links, l)}
        added == {l \in Range(last'[1].new_links) : ~Contains(last'[1].old_links, l)}
    IN  (Reconciled' /\ (removed \cup added) \ Slugs(collection) # {})
        => /\ last'[1].result.kind = "Ok"
           /\ Slugs(collection') = Slugs(collection)
           /\ Cardinality(collection') = Cardinality(collection)
           /\ \A t \in collection' :
                /\ t.slug \in removed => ~Contains(t.backlinks, s)
                /\ t.slug \in added => Contains(t.backlinks, s)

C10_MissingTargetsSkipped == [][C10_MissingTargetStep]_vars

\* C10 witness: update_backlinks(a, <<>>, <<c, b>>) ran while c had no document:
\* c still has none and b holds a
C10_Witness ==
    /\ Reconciled
    /\ last[1].source_slug = SlugA
    /\ last[1].old_links = <<>>
    /\ last[1].new_links = <<SlugC, SlugB>>
    /\ last[1].result.kind = "Ok"
    /\ Matching(collection, SlugC) = {}
    /\ \E t \in collection : t.slug = SlugB /\ Contains(t.backlinks, SlugA)

(***************************************************************************)
(* Reading `tasks`.                                                        *)
(***************************************************************************)
ReturnedOk(task) == task.pc = "returned" /\ task.result[1].kind = "Ok"

\* The call of the task found no link to slug in the stored document and put one
NewlyLinks(task, slug) ==
    Contains(task.doc[1].links_out, slug) /\ ~Contains(OldLinks(task), slug)

\* The call of the task found a link to slug in the stored document and dropped it
NoLongerLinks(task, slug) ==
    Contains(OldLinks(task), slug) /\ ~Contains(task.doc[1].links_out, slug)

(***************************************************************************)
(* C11.  When the calls of the two tasks, for different source slugs, have *)
(* both returned Ok, a target T that is neither source, that had a         *)
(* document when each call started and that no call ingested meanwhile     *)
(* holds both sources in its backlinks when both calls newly linked to it, *)
(* and neither when both calls dropped their link to it, however the       *)
(* backend calls of the two were interleaved.                              *)
(***************************************************************************)
C11_SharedTargetKeepsBoth ==
    (/\ ReturnedOk(tasks[1]) /\ ReturnedOk(tasks[2])
     /\ tasks[1].request.slug # tasks[2].request.slug)
    => \A t \in collection :
        (/\ t.slug \notin {tasks[1].request.slug, tasks[2].request.slug}
         /\ t.slug \in tasks[1].settled \cap tasks[2].settled)
        => /\ (NewlyLinks(tasks[1], t.slug) /\ NewlyLinks(tasks[2], t.slug))
                => /\ Contains(t.backlinks, tasks[1].request.slug)
                   /\ Contains(t.backlinks, tasks[2].request.slug)
           /\ (NoLongerLinks(tasks[1], t.slug) /\ NoLongerLinks(tasks[2], t.slug))
                => /\ ~Contains(t.backlinks, tasks[1].request.slug)
                   /\ ~Contains(t.backlinks, tasks[2].request.slug)

\* C11 witness: the calls for a and b ran at the same time, both newly linked to c,
\* which had a document all along, and c holds b then a
C11_Witness ==
    /\ ReturnedOk(tasks[1]) /\ ReturnedOk(tasks[2])
    /\ tasks[1].concurrent /\ tasks[2].concurrent
    /\ tasks[1].request.slug = SlugA /\ tasks[2].request.slug = SlugB
    /\ NewlyLinks(tasks[1], SlugC) /\ NewlyLinks(tasks[2], SlugC)
    /\ SlugC \in tasks[1].settled \cap tasks[2].settled
    /\ \E t \in collection : t.slug = SlugC /\ t.backlinks = <<SlugB, SlugA>>

(***************************************************************************)
(* C12.  In every reachable state, whatever the interleaving of the calls  *)
(* and whichever backend calls fail, the bucket holds an object under the  *)
(* s3_key of every document of the collection.                             *)
(***************************************************************************)
C12_StoredKeyHasObject == \A d \in collection : d.s3_key \in DOMAIN bucket

\* C12 witness: the put of a call for a failed while another call was running, so
\* neither the object nor the document of a exists, and other documents do
C12_Witness ==
    /\ tasks[1].pc = "returned" /\ tasks[1].result[1].kind = "Storage"
    /\ tasks[1].concurrent
    /\ tasks[1].request.slug = SlugA
    /\ s3_key_of(SlugA) \notin DOMAIN bucket
    /\ Matching(collection, SlugA) = {}
    /\ collection # {}

(***************************************************************************)
(* C13.  The storage key is a function of the slug alone, and two distinct *)
(* non-empty slugs, with '/' or '_' in them or not, have distinct keys.    *)
(***************************************************************************)
C13_KeyStableAndCollisionFree ==
    IsApplied("s3_key_of")
    => /\ eval[1].args[1] = eval[1].args[2] => eval[1].value[1] = eval[1].value[2]
       /\ eval[1].args[1] # eval[1].args[2] => eval[1].value[1] # eval[1].value[2]

(***************************************************************************)
(* C14.  In every step, a slug that has a document keeps one; a slug gets  *)
(* its first document only by the upsert of a call for that slug; and the  *)
(* collection never holds two documents of one slug.                       *)
(***************************************************************************)
\* The step is the successful upsert of a call for slug
UpsertOf(slug) ==
    \E p \in Tasks :
        /\ tasks[p].pc \in {"create_or_update", "insert"}
        /\ tasks[p].request.slug = slug
        /\ tasks'[p].pc \in {"update_one", "index_document", "returned"}
        /\ tasks'[p].pc = "returned" => tasks'[p].result[1].kind = "Ok"

C14_PresenceStep ==
    /\ Slugs(collection) \subseteq Slugs(collection')
    /\ \A slug \in Slugs(collection') \ Slugs(collection) : UpsertOf(slug)
    /\ \A slug \in Slugs(collection') : Cardinality(Matching(collection', slug)) = 1

C14_AbsentPresentOneDocument == [][C14_PresenceStep]_vars

(***************************************************************************)
(* C15.  In every reachable state, after calls that failed part-way too,   *)
(* the links_out of every document are the links the extractor finds in    *)
(* the object the bucket holds under the document's s3_key.                *)
(***************************************************************************)
C15_LinksOutOfStoredBody ==
    \A d \in collection :
        /\ d.s3_key \in DOMAIN bucket
        /\ d.links_out = extract_internal_links(bucket[d.s3_key])

(***************************************************************************)
(* C16.  After successful calls made one at a time, the document of every  *)
(* ingested slug X has the title, level, owner and tags of the latest call *)
(* for X, and the bucket holds the body of that call under X's s3_key.     *)
(* Stated on a step: the call for X leaves its request's fields in X's     *)
(* document and its body under X's key, and leaves the four fields of      *)
(* every other document and the object under its key as they were.         *)
(***************************************************************************)
C16_LatestStep ==
    (Ingested' /\ last'[1].result.kind = "Ok")
    => LET request == last'[1].request
           x == Stored(collection', request.slug)
       IN  /\ x.title = request.title
           /\ <<x.access_level>> = from_str_ci(request.access_level)
           /\ x.service_owner = request.service_owner
           /\ x.tags = request.tags
           /\ bucket'[x.s3_key] = request.content
           /\ \A y \in {d \in collection : d.slug # request.slug} :
                LET after == Stored(collection', y.slug)
                IN  /\ after.title = y.title
                    /\ after.access_level = y.access_level
                    /\ after.service_owner = y.service_owner
                    /\ after.tags = y.tags
                    /\ after.s3_key = y.s3_key
                    /\ bucket'[y.s3_key] = bucket[y.s3_key]

C16_LatestFieldsAndBody == [][C16_LatestStep]_vars

(***************************************************************************)
(* C17.  list_accessible(max_level) returns the documents whose level is   *)
(* at most max_level and that are not hidden, all of them and each once,   *)
(* in ascending order of (order, slug); find_by_slug returns a hidden      *)
(* document.                                                               *)
(***************************************************************************)
Listed == LastIs("list_accessible")

C17_ListAccessible ==
    Listed
    => LET documents == last[1].documents
           max_level == last[1].max_level
       IN  /\ \A d \in collection :
                Occurrences(documents, d) =
                    IF d.access_level <= max_level /\ ~d.is_hidden THEN 1 ELSE 0
           /\ Range(documents) \subseteq collection
           /\ \A i, j \in 1..Len(documents) :
                i < j => \/ documents[i].order < documents[j].order
                         \/ /\ documents[i].order = documents[j].order
                            /\ str_lt(documents[i].slug, documents[j].slug)
           /\ \A d \in collection : d.is_hidden => find_by_slug(collection, d.slug) = <<d>>

\* C17 witness: list_accessible(Developer) returned a/a then a, in that order for
\* a/a is first in order and a is last, while b is hidden or above Developer
C17_Witness ==
    /\ Listed
    /\ last[1].max_level = Developer
    /\ Len(last[1].documents) = 2
    /\ last[1].documents[1].slug = SlugPath /\ last[1].documents[1].order = 0
    /\ last[1].documents[2].slug = SlugA /\ last[1].documents[2].order = MaxOrder
    /\ \E d \in collection : d.slug = SlugB /\ d.is_hidden /\ d.access_level = Public

(***************************************************************************)
(* C18.  The levels are ordered Public < Developer < Architect < Admin,    *)
(* and has_access(held, required) is true exactly when held is at or after *)
(* required in that order, for the 16 pairs: it is reflexive and           *)
(* transitive, and Admin has access to everything.                         *)
(***************************************************************************)
\* The levels in the order of the claim, and the place of a level in it
TierOrder == <<Public, Developer, Architect, Admin>>

Rank(level) == CHOOSE i \in 1..Len(TierOrder) : TierOrder[i] = level

C18_HasAccessIsTheOrder ==
    IsApplied("has_access")
    => LET held == eval[1].args[1]
           required == eval[1].args[2]
       IN  /\ Public < Developer /\ Developer < Architect /\ Architect < Admin
           /\ Cardinality(AccessLevel) = 4
           /\ eval[1].value = (Rank(held) >= Rank(required))
           /\ held = required => eval[1].value
           /\ held = Admin => eval[1].value
           /\ \A other \in AccessLevel :
                (eval[1].value /\ has_access(required, other)) => has_access(held, other)
           /\ (held # required) => (eval[1].value # has_access(required, held))

\* C18 witness: has_access was applied to Developer and Architect and is false
C18_Witness ==
    /\ IsApplied("has_access")
    /\ eval[1].args = <<Developer, Architect>>
    /\ eval[1].value = FALSE

(***************************************************************************)
(* C19.  from_str_ci returns the level whose name the text is, in any mix  *)
(* of upper and lower case, and None for every other text; and             *)
(* from_str_ci(to_string(level)) is the level, for the four levels.        *)
(***************************************************************************)
\* The name a text spells, letter by letter, whatever the case of each letter
Spells(s, name) ==
    /\ Len(s) = Len(name)
    /\ \A i \in 1..Len(s) : s[i] = name[i] \/ s[i] = upper_char(name[i])

C19_ParseIsExactAndRoundTrips ==
    /\ IsApplied("from_str_ci")
        => LET s == eval[1].args[1]
           IN  /\ \A level \in AccessLevel :
                    Spells(s, to_string(level)) <=> eval[1].value = <<level>>
               /\ (\A level \in AccessLevel : ~Spells(s, to_string(level)))
                    <=> eval[1].value = <<>>
    /\ IsApplied("to_string")
        => /\ from_str_ci(eval[1].value) = <<eval[1].args[1]>>
           /\ eval[1].value \in TierTexts

\* C19 witness: from_str_ci was applied to ArChItEcT-like mixed case and returned
\* Architect
C19_Witness ==
    /\ IsApplied("from_str_ci")
    /\ eval[1].args[1] = <<"A", "r", "C", "h", "I", "t", "E", "c", "T">>
    /\ eval[1].value = <<Architect>>

(***************************************************************************)
(* C20.  A body whose link nodes are all absolute external URLs, anchors   *)
(* of the page or mail references has no internal link: the extractor      *)
(* returns the empty list; so it does for a body without link nodes.       *)
(***************************************************************************)
IsLetter(c) == \E i \in 1..Len(Lower) : Lower[i] = c \/ Upper[i] = c

\* scheme://..., the scheme made of letters
AbsoluteUrl(url) ==
    \E i \in 2..(Len(url) - 2) :
        /\ SubSeq(url, i, i + 2) = <<":", "/", "/">>
        /\ \A j \in 1..(i - 1) : IsLetter(url[j])

AnchorOnly(url) == url # <<>> /\ url[1] = "#"

MailReference(url) == Len(url) > 7 /\ SubSeq(url, 1, 7) = <<"m", "a", "i", "l", "t", "o", ":">>

C20_NothingInternalNothingFound ==
    IsApplied("extract_internal_links")
    => LET body == eval[1].args[1]
       IN  (\A i \in 1..Len(body) :
                AbsoluteUrl(body[i]) \/ AnchorOnly(body[i]) \/ MailReference(body[i]))
           => eval[1].value = <<>>

(***************************************************************************)
(* C21.  For references "/docs/<slug>", each optionally followed by a      *)
(* fragment or by a slash, the extractor returns exactly the slugs         *)
(* referred to, in the order of their first occurrence, each once and none *)
(* empty.                                                                  *)
(***************************************************************************)
RECURSIVE FirstOccurrences(_, _, _)
FirstOccurrences(seq, i, found) ==
    IF i > Len(seq) THEN found
    ELSE FirstOccurrences(seq, i + 1,
                          IF Contains(found, seq[i]) THEN found ELSE Append(found, seq[i]))

C21_ReferencesYieldTheirSlugs ==
    IsApplied("extract_refs")
    => LET refs == eval[1].args[1]
           slugs == [i \in 1..Len(refs) |-> refs[i].slug]
       IN  /\ eval[1].value = FirstOccurrences(slugs, 1, <<>>)
           /\ ~Contains(eval[1].value, <<>>)

(***************************************************************************)
(* C22.  Ingesting a document A whose body links to a slug B without a     *)
(* document succeeds, stores A with the links of its body as links_out and *)
(* leaves B absent; when B is then ingested for the first time there is no *)
(* backward repair.  Original statement: the backlinks of B are then       *)
(* empty.                                                                  *)
(***************************************************************************)
\* The call of the step is an ingestion of a body that links to another slug
\* that has no document
C22_LinkToAbsentStep ==
    Ingested'
    => LET a == last'[1].request.slug
           links == extract_internal_links(last'[1].request.content)
       IN  \A b \in Range(links) :
               (b # a /\ Matching(collection, b) = {})
               => /\ last'[1].result.kind = "Ok"
                  /\ Matching(collection', a) # {}
                  /\ Stored(collection', a).links_out = links
                  /\ Matching(collection', b) = {}

\* The slugs of the documents other than b that link to b, when the call of the
\* step is the first ingestion of b
LinkersOfNew(b) ==
    IF Ingested' /\ last'[1].request.slug = b /\ Matching(collection, b) = {}
    THEN Linkers(collection, b) \ {b}
    ELSE {}

C22_FirstIngestEmptyStep ==
    \A b \in {SlugA, SlugB} :
        LinkersOfNew(b) # {} => Stored(collection', b).backlinks = <<>>

C22_NoBackwardRepairEmpty == [][C22_LinkToAbsentStep /\ C22_FirstIngestEmptyStep]_vars

\* C22, amended: the backlinks of B then hold none of the documents that linked
\* to it before; they are empty, or hold B alone when the body of B links to B.
C22_FirstIngestStep ==
    \A b \in {SlugA, SlugB} :
        LinkersOfNew(b) # {}
        => /\ Range(Stored(collection', b).backlinks) \cap LinkersOfNew(b) = {}
           /\ Stored(collection', b).backlinks =
                 IF Contains(extract_internal_links(last'[1].request.content), b)
                 THEN <<b>> ELSE <<>>

C22_NoBackwardRepair == [][C22_LinkToAbsentStep /\ C22_FirstIngestStep]_vars

\* C22 witness: a, whose body links to b, was stored while b had no document;
\* b was ingested since, links to itself, and holds itself as its only backlink
C22_Witness ==
    /\ Ingested /\ last[1].request.slug = SlugB /\ last[1].result.kind = "Ok"
    /\ <<SlugA, SlugB>> \in unmatched
    /\ \E x \in collection : x.slug = SlugA /\ Contains(x.links_out, SlugB)
    /\ \E x \in collection : x.slug = SlugB /\ x.links_out = <<SlugB>>
                                /\ x.backlinks = <<SlugB>>

(***************************************************************************)
(* C23.  Every hit of a search at a tier is for a document of the index    *)
(* whose numeric tier is at most that tier, and a search request that      *)
(* names no tier returns documents of the index at tier Public only.       *)
(***************************************************************************)
\* The tier of the document of the index a hit stands for
IndexedTier(hit) == (CHOOSE d \in index : d.slug = hit.slug).access_level

C23_SearchFiltersByTier ==
    /\ LastIs("search")
       => \A hit \in last[1].hits :
              /\ \E d \in index : d.slug = hit.slug
              /\ IndexedTier(hit) <= last[1].max_level[1]
    /\ (LastIs("search_handler") \/ LastIs("search_docs"))
       => \A hit \in last[1].hits :
              /\ \E d \in index : d.slug = hit.slug
              /\ IndexedTier(hit) = Public

(***************************************************************************)
(* C30.  After any sequence of ingestions whose index submissions may      *)
(* fail, a search at a tier returns no hit for a slug whose stored         *)
(* document has a tier above it.                                           *)
(***************************************************************************)
C30_SearchRespectsStoredTier ==
    LastIs("search")
    => \A hit \in last[1].hits :
           \A d \in collection :
               d.slug = hit.slug => d.access_level <= last[1].max_level[1]

(***************************************************************************)
(* C24.  When an ingestion of T and an ingestion of another slug A that    *)
(* newly links to T ran at the same time and both returned Ok, T, which    *)
(* had a document all along, holds A in its backlinks, however the steps   *)
(* of the two calls were interleaved.                                      *)
(***************************************************************************)
\* The calls of the two tasks, both returned, ran at the same time: each met a
\* running call of the other task, which has made no later call
Overlapped ==
    /\ tasks[1].pc = "returned" /\ tasks[2].pc = "returned"
    /\ tasks[1].concurrent /\ tasks[2].concurrent

C24_ConcurrentTargetKeepsBacklink ==
    \A p, q \in Tasks :
        (/\ Overlapped
         /\ ReturnedOk(tasks[p]) /\ ReturnedOk(tasks[q])
         /\ tasks[p].request.slug # tasks[q].request.slug
         /\ tasks[p].old_doc # <<>>
         /\ NewlyLinks(tasks[q], tasks[p].request.slug))
        => \A t \in Matching(collection, tasks[p].request.slug) :
               Contains(t.backlinks, tasks[q].request.slug)

(***************************************************************************)
(* C25.  When two ingestions of the same slug X, which has a document,     *)
(* with different bodies whose link targets have documents, ran at the     *)
(* same time and both returned Ok, every document T holds X in its         *)
(* backlinks exactly when the stored document X holds T in links_out.      *)
(***************************************************************************)
C25_SameSlugBacklinksConsistent ==
    (/\ Overlapped
     /\ ReturnedOk(tasks[1]) /\ ReturnedOk(tasks[2])
     /\ tasks[1].request.slug = tasks[2].request.slug
     /\ tasks[1].request.content # tasks[2].request.content
     /\ tasks[1].old_doc # <<>> /\ tasks[2].old_doc # <<>>
     /\ \A p \in Tasks : Range(tasks[p].links_out) \subseteq Slugs(collection))
    => \A x \in Matching(collection, tasks[1].request.slug) :
           \A t \in collection :
               Contains(t.backlinks, x.slug) <=> Contains(x.links_out, t.slug)

(***************************************************************************)
(* C26.  When the backlink propagation of an ingestion of X fails, before  *)
(* or after a part of the delta was applied, the upsert being done, a      *)
(* later ingestion of X with the same body that meets no failure leaves X  *)
(* in the backlinks of every existing target it links to, and out of the   *)
(* backlinks of every existing target whose link was dropped.              *)
(***************************************************************************)
\* The last call stored its document and then failed in update_backlinks
PropagationFailed ==
    /\ Ingested
    /\ last[1].fail.call = "update_one"
    /\ last[1].result.kind = "Database"
    /\ Contains(last[1].calls, "create_or_update")

C26_RepairStep ==
    (/\ PropagationFailed
     /\ Ingested'
     /\ last'[1].request.slug = last[1].request.slug
     /\ last'[1].request.content = last[1].request.content
     /\ last'[1].result.kind = "Ok"
     /\ last'[1].fail.call \notin Range(last'[1].calls))
    => LET x == last[1].request.slug
           links == extract_internal_links(last[1].request.content)
       IN  \A t \in collection' :
               /\ Contains(links, t.slug) => Contains(t.backlinks, x)
               /\ (Contains(last[1].old_links, t.slug) /\ ~Contains(links, t.slug))
                  => ~Contains(t.backlinks, x)

C26_LaterIngestionRepairs == [][C26_RepairStep]_vars

(***************************************************************************)
(* C27.  No ingestion clears the fields merged by sentinel: a document     *)
(* that is hidden is hidden after every ingestion, and a document whose    *)
(* order is not 0 has an order that is not 0 after every ingestion.        *)
(***************************************************************************)
C27_KeepStep ==
    \A d \in collection :
        /\ Matching(collection', d.slug) # {}
        /\ \A e \in Matching(collection', d.slug) :
               /\ d.is_hidden => e.is_hidden
               /\ d.order # 0 => e.order # 0

C27_SentinelFieldsNeverCleared == [][C27_KeepStep]_vars

\* C27 witness: a, hidden and of the highest order, was re-ingested with another
\* parent, with is_hidden = false and order = 0, and is still hidden and of that
\* order
C27_Witness ==
    /\ Ingested /\ last[1].result.kind = "Ok"
    /\ last[1].request.slug = SlugA
    /\ last[1].request.parent_slug = <<SlugC>>
    /\ ~last[1].request.is_hidden
    /\ last[1].request.order = 0
    /\ \E d \in collection : /\ d.slug = SlugA /\ d.parent_slug = <<SlugC>>
                             /\ d.is_hidden /\ d.order = MaxOrder

(***************************************************************************)
(* C28.  Original statement: a successful ingestion of X leaves the        *)
(* backlinks of X itself as they were before the call (empty for a new     *)
(* document), whatever the body, a body that links to X included.          *)
(***************************************************************************)
\* The backlinks of the document of the slug before the step, none without one
BacklinksBefore(slug) ==
    IF Matching(collection, slug) = {} THEN <<>> ELSE Stored(collection, slug).backlinks

C28_OwnBacklinksStep ==
    (Ingested' /\ last'[1].result.kind = "Ok")
    => Stored(collection', last'[1].request.slug).backlinks
          = BacklinksBefore(last'[1].request.slug)

C28_OwnBacklinksUnchanged == [][C28_OwnBacklinksStep]_vars

\* C28, amended: the backlinks of X are as before the call, but for X itself,
\* which is added when the body newly links to X and removed when the body drops
\* the link to X that the stored document had.
C28_OwnBacklinksSelfStep ==
    (Ingested' /\ last'[1].result.kind = "Ok")
    => LET x == last'[1].request.slug
           old_links == last'[1].old_links
           new_links == extract_internal_links(last'[1].request.content)
       IN  Stored(collection', x).backlinks =
              IF Contains(new_links, x) /\ ~Contains(old_links, x)
              THEN AddToSet(BacklinksBefore(x), x)
              ELSE IF Contains(old_links, x) /\ ~Contains(new_links, x)
              THEN Pull(BacklinksBefore(x), x)
              ELSE BacklinksBefore(x)

C28_OwnBacklinksButSelfLink == [][C28_OwnBacklinksSelfStep]_vars

\* C28 witness: a, which b links to, was re-ingested with a body that links to a
\* alone, and holds b and itself as backlinks
C28_Witness ==
    /\ Ingested /\ last[1].result.kind = "Ok"
    /\ last[1].request.slug = SlugA
    /\ last[1].old_links = <<>>
    /\ \E d \in collection : /\ d.slug = SlugA /\ d.links_out = <<SlugA>>
                             /\ d.backlinks = <<SlugB, SlugA>>

(***************************************************************************)
(* C29.  The backend calls of one ingestion are made in the order lookup,  *)
(* blob put, upsert, backlink updates, index submission, each only after   *)
(* every earlier one succeeded: the call that fails is the last one made,  *)
(* a failed lookup leaves the three stores as they were, and a failed      *)
(* upsert leaves the collection and the index as they were, the blob alone *)
(* being written.                                                          *)
(***************************************************************************)
CallOrder == <<"find_by_slug", "put_object", "create_or_update", "update_one",
               "index_document">>

CallRank(call) == CHOOSE i \in 1..Len(CallOrder) : CallOrder[i] = call

\* The calls are in the fixed order, none made twice but update_one
InCallOrder(calls) ==
    /\ \A i \in 1..Len(calls) : \E j \in 1..Len(CallOrder) : CallOrder[j] = calls[i]
    /\ \A i \in 1..(Len(calls) - 1) :
           \/ CallRank(calls[i]) < CallRank(calls[i + 1])
           \/ calls[i] = "update_one" /\ calls[i + 1] = "update_one"
    /\ \A i \in 1..Len(calls) :
           \A call \in {CallOrder[j] : j \in 1..(CallRank(calls[i]) - 1)} :
               call # "update_one" => Contains(SubSeq(calls, 1, i - 1), call)

\* The call that the failure plan makes fail, when it is made, ends the calls
FailureIsLast(calls, fail) ==
    IF fail.call = "update_one"
    THEN Occurrences(calls, "update_one") >= fail.nth
         => /\ Occurrences(calls, "update_one") = fail.nth
            /\ calls[Len(calls)] = "update_one"
    ELSE Contains(calls, fail.call) => calls[Len(calls)] = fail.call

C29_CallOrderStep ==
    Ingested'
    => LET calls == last'[1].calls
           fail == last'[1].fail
           request == last'[1].request
       IN  /\ InCallOrder(calls)
           /\ FailureIsLast(calls, fail)
           /\ fail.call = "find_by_slug"
                => /\ calls = <<"find_by_slug">>
                   /\ last'[1].result.kind # "Ok"
                   /\ collection' = collection /\ bucket' = bucket /\ index' = index
           /\ fail.call = "create_or_update"
                => /\ calls = <<"find_by_slug", "put_object", "create_or_update">>
                   /\ last'[1].result.kind # "Ok"
                   /\ collection' = collection /\ index' = index
                   /\ bucket' = put_object(bucket, s3_key_of(request.slug), request.content)

C29_CallsInOrderUntilFailure == [][C29_CallOrderStep]_vars

\* C29 witness: the upsert of a, whose body links to b, failed: the blob of a is
\* in the bucket, a has no document and b no backlink
C29_Witness ==
    /\ Ingested
    /\ last[1].fail.call = "create_or_update"
    /\ last[1].calls = <<"find_by_slug", "put_object", "create_or_update">>
    /\ last[1].request.slug = SlugA
    /\ s3_key_of(SlugA) \in DOMAIN bucket
    /\ bucket[s3_key_of(SlugA)] = <<UrlB>>
    /\ Matching(collection, SlugA) = {}
    /\ \E d \in collection : d.slug = SlugB /\ d.backlinks = <<>>

====
